---- MODULE Spec2Model ----
(***************************************************************************)
(* Chain selectors: the official registry of evm.go and the custom chain   *)
(* selector codec (generateCustomChainSelector and friends, current        *)
(* generation, custom_chains_test.go lines 336-540).                       *)
(*                                                                         *)
(* A uint64 is kept at its full width of 64 bits as three limbs            *)
(*   tag : the top 4 bits,  hi : the next 30 bits,  lo : the low 30 bits   *)
(* so that value = tag * 2^60 + hi * 2^30 + lo and every limb fits the     *)
(* integers of the model checker.                                          *)
(***************************************************************************)
EXTENDS Integers, Sequences, FiniteSets, TLC

VARIABLES evmChainIdToChainSelector, evmChainsBySelector, evmChainsByEvmChainID,
          env, sha256Prefix, last, listing

vars == <<evmChainIdToChainSelector, evmChainsBySelector, evmChainsByEvmChainID,
          env, sha256Prefix, last, listing>>

registry == <<evmChainIdToChainSelector, evmChainsBySelector, evmChainsByEvmChainID>>

----------------------------------------------------------------------------
(* uint64 arithmetic on limbs *)

\* largest chain ID of the run 0..MaxSmallID of small chain IDs and payloads
MaxSmallID == 2

TagBase == 2^4
LimbBase == 2^30
LimbMax == LimbBase - 1

U64(t, h, l) == [tag |-> t, hi |-> h, lo |-> l]

Zero == U64(0, 0, 0)
MaxUint64 == U64(TagBase - 1, LimbMax, LimbMax)

RECURSIVE BitAnd(_, _)
BitAnd(a, b) ==
    IF a = 0 \/ b = 0 THEN 0
    ELSE IF a = b THEN a
    ELSE (a % 2) * (b % 2) + 2 * BitAnd(a \div 2, b \div 2)

RECURSIVE BitOr(_, _)
BitOr(a, b) ==
    IF a = 0 THEN b
    ELSE IF b = 0 THEN a
    ELSE IF a = b THEN a
    ELSE (IF a % 2 = 1 \/ b % 2 = 1 THEN 1 ELSE 0) + 2 * BitOr(a \div 2, b \div 2)

\* x & y
And64(x, y) == U64(BitAnd(x.tag, y.tag), BitAnd(x.hi, y.hi), BitAnd(x.lo, y.lo))

\* x | y
Or64(x, y) == U64(BitOr(x.tag, y.tag), BitOr(x.hi, y.hi), BitOr(x.lo, y.lo))

\* x > y
Gt64(x, y) ==
    \/ x.tag > y.tag
    \/ x.tag = y.tag /\ x.hi > y.hi
    \/ x.tag = y.tag /\ x.hi = y.hi /\ x.lo > y.lo

\* x >= y
Ge64(x, y) == x = y \/ Gt64(x, y)

\* x <= y
Le64(x, y) == ~Gt64(x, y)

\* x + 1, wrapping from 2^64 - 1 to 0
Inc64(x) ==
    IF x.lo < LimbMax THEN U64(x.tag, x.hi, x.lo + 1)
    ELSE IF x.hi < LimbMax THEN U64(x.tag, x.hi + 1, 0)
    ELSE U64((x.tag + 1) % TagBase, 0, 0)

----------------------------------------------------------------------------
(* strings and errors *)

\* a string literal
Str(s) == [text |-> s, hasNum |-> FALSE, num |-> Zero]

\* fmt.Sprintf(prefix + "%d", n): the decimal rendering of n is injective in n
SprintfD(prefix, n) == [text |-> prefix, hasNum |-> TRUE, num |-> n]

Nil == "nil"
ErrNotCustomSelector == "not a custom selector"
ErrCouldNotReverse == "could not reverse custom selector (possibly hash-based)"
ErrCustomChainsDisabled == "custom chain detected but ENABLE_CUSTOM_CHAINS is disabled"
ErrSelectorNotFound == "chain selector not found for chain"
ErrChainNotFound == "chain not found for chain selector"
ErrNameNotFound == "chain name not found for chain"

----------------------------------------------------------------------------
(* the codec *)

\* 0xE000000000000000
CustomPrefix == U64(14, 0, 0)
\* 0x0FFFFFFFFFFFFFFF
PayloadMask == U64(0, LimbMax, LimbMax)
\* 0xF000000000000000
TagMask == U64(15, 0, 0)

\* binary.BigEndian.Uint64(sha256.Sum256("custom-testnet-chain-<chainID>")[:8]):
\* SHA-256 is a fixed function of unknown value here, sha256Prefix is any one
\* such function, chosen once and never changed
Sha256Uint64(chainID) == sha256Prefix[chainID]

\* 0xC000000000000000, the prefix of the superseded generation
OldCustomPrefix == U64(12, 0, 0)

\* as generateCustomChainSelector, still with the superseded prefix
generateCustomChainSelector_oldPrefix(chainID) ==
    IF Gt64(chainID, PayloadMask)
    THEN Or64(OldCustomPrefix, And64(Sha256Uint64(chainID), PayloadMask))
    ELSE Or64(OldCustomPrefix, chainID)

\* as generateCustomChainSelector, the hash not cut to its low 60 bits
generateCustomChainSelector_unmaskedHash(chainID) ==
    IF Gt64(chainID, PayloadMask)
    THEN Or64(CustomPrefix, Sha256Uint64(chainID))
    ELSE Or64(CustomPrefix, chainID)

\* as generateCustomChainSelector, reading ENABLE_CUSTOM_CHAINS inside the codec
generateCustomChainSelector_readsFlag(chainID) ==
    IF env = "false"
    THEN Zero
    ELSE IF Gt64(chainID, PayloadMask)
    THEN Or64(CustomPrefix, And64(Sha256Uint64(chainID), PayloadMask))
    ELSE Or64(CustomPrefix, chainID)

generateCustomChainSelector(chainID) ==
    IF Gt64(chainID, PayloadMask)
    THEN Or64(CustomPrefix, And64(Sha256Uint64(chainID), PayloadMask))
    ELSE Or64(CustomPrefix, chainID)

generateCustomChainName(chainID) == SprintfD("custom-testnet-", chainID)

isInOfficialSelectors(chainID) == chainID \in DOMAIN evmChainIdToChainSelector

\* the threshold of the superseded generation
CUSTOM_CHAIN_RANGE == U64(0, 0, 1000000)

\* as isCustomChain, still with the threshold of the superseded generation
isCustomChain_range(chainID) ==
    Ge64(chainID, CUSTOM_CHAIN_RANGE) \/ ~isInOfficialSelectors(chainID)

isCustomChain(chainID) == ~isInOfficialSelectors(chainID)

\* as isCustomSelector, still with the two-bit pattern of the superseded generation
isCustomSelector_oldPattern(selector) ==
    And64(selector, OldCustomPrefix) = OldCustomPrefix

isCustomSelector(selector) == And64(selector, TagMask) = CustomPrefix

\* as extractChainIdFromCustomSelector, the mask one hex digit short
\* (0x00FFFFFFFFFFFFFF)
extractChainIdFromCustomSelector_shortMask(selector) ==
    IF ~isCustomSelector(selector)
    THEN [ret |-> Zero, err |-> ErrNotCustomSelector]
    ELSE LET chainID == And64(selector, U64(0, 2^26 - 1, LimbMax))
         IN IF generateCustomChainSelector(chainID) = selector
            THEN [ret |-> chainID, err |-> Nil]
            ELSE [ret |-> Zero, err |-> ErrCouldNotReverse]

extractChainIdFromCustomSelector(selector) ==
    IF ~isCustomSelector(selector)
    THEN [ret |-> Zero, err |-> ErrNotCustomSelector]
    ELSE LET chainID == And64(selector, PayloadMask)
         IN IF generateCustomChainSelector(chainID) = selector
            THEN [ret |-> chainID, err |-> Nil]
            ELSE [ret |-> Zero, err |-> ErrCouldNotReverse]

----------------------------------------------------------------------------
(* the facade *)

Enabled == env # "false"

\* as GetCustomChainSelector, without the look into the official selectors
GetCustomChainSelector_noLookup(chainID) ==
    IF isCustomChain(chainID)
    THEN IF Enabled
         THEN [ret |-> generateCustomChainSelector(chainID),
               err |-> Nil, codec |-> TRUE]
         ELSE [ret |-> Zero, err |-> ErrCustomChainsDisabled, codec |-> FALSE]
    ELSE [ret |-> Zero, err |-> ErrSelectorNotFound, codec |-> FALSE]

GetCustomChainSelector(chainID) ==
    IF chainID \in DOMAIN evmChainIdToChainSelector
    THEN [ret |-> evmChainIdToChainSelector[chainID].ChainSelector,
          err |-> Nil, codec |-> FALSE]
    ELSE IF isCustomChain(chainID)
    THEN IF Enabled
         THEN [ret |-> generateCustomChainSelector(chainID),
               err |-> Nil, codec |-> TRUE]
         ELSE [ret |-> Zero, err |-> ErrCustomChainsDisabled, codec |-> FALSE]
    ELSE [ret |-> Zero, err |-> ErrSelectorNotFound, codec |-> FALSE]

SelectorFromChainId(chainId) ==
    IF chainId \in DOMAIN evmChainIdToChainSelector
    THEN [ret |-> evmChainIdToChainSelector[chainId].ChainSelector,
          err |-> Nil, codec |-> FALSE]
    ELSE GetCustomChainSelector(chainId)

\* as ChainIdFromSelector, without the custom selector lookup
ChainIdFromSelector_officialOnly(chainSelectorId) ==
    LET found == {k \in DOMAIN evmChainIdToChainSelector :
                    evmChainIdToChainSelector[k].ChainSelector = chainSelectorId}
    IN IF found # {}
       THEN {[ret |-> k, err |-> Nil] : k \in found}
       ELSE {[ret |-> Zero, err |-> ErrChainNotFound]}

\* the range over the map visits the keys in an unspecified order: every key
\* whose selector matches is a possible result
ChainIdFromSelector(chainSelectorId) ==
    LET found == {k \in DOMAIN evmChainIdToChainSelector :
                    evmChainIdToChainSelector[k].ChainSelector = chainSelectorId}
    IN IF found # {}
       THEN {[ret |-> k, err |-> Nil] : k \in found}
       ELSE IF isCustomSelector(chainSelectorId)
       THEN {extractChainIdFromCustomSelector(chainSelectorId)}
       ELSE {[ret |-> Zero, err |-> ErrChainNotFound]}

NameFromChainId(chainId) ==
    IF chainId \notin DOMAIN evmChainIdToChainSelector
    THEN IF isCustomChain(chainId)
         THEN [ret |-> generateCustomChainName(chainId), err |-> Nil]
         ELSE [ret |-> Str(""), err |-> ErrNameNotFound]
    ELSE IF evmChainIdToChainSelector[chainId].ChainName = Str("")
    THEN [ret |-> SprintfD("", chainId), err |-> Nil]
    ELSE [ret |-> evmChainIdToChainSelector[chainId].ChainName, err |-> Nil]

\* Chain{}
NoChain == [EvmChainID |-> Zero, Selector |-> Zero, Name |-> Str(""),
            VarName |-> Str("")]

ChainBySelector(sel) ==
    IF sel \in DOMAIN evmChainsBySelector
    THEN [ret |-> evmChainsBySelector[sel], ok |-> TRUE]
    ELSE IF isCustomSelector(sel)
            /\ extractChainIdFromCustomSelector(sel).err = Nil
    THEN LET chainID == extractChainIdFromCustomSelector(sel).ret
         IN [ret |-> [EvmChainID |-> chainID,
                      Selector |-> sel,
                      Name |-> generateCustomChainName(chainID),
                      VarName |-> SprintfD("CUSTOM_TESTNET_", chainID)],
             ok |-> TRUE]
    ELSE [ret |-> NoChain, ok |-> FALSE]

ChainByEvmChainID(evmChainID) ==
    IF evmChainID \in DOMAIN evmChainsByEvmChainID
    THEN [ret |-> evmChainsByEvmChainID[evmChainID], ok |-> TRUE]
    ELSE IF isCustomChain(evmChainID)
    THEN [ret |-> [EvmChainID |-> evmChainID,
                   Selector |-> generateCustomChainSelector(evmChainID),
                   Name |-> generateCustomChainName(evmChainID),
                   VarName |-> SprintfD("CUSTOM_TESTNET_", evmChainID)],
          ok |-> TRUE]
    ELSE [ret |-> NoChain, ok |-> FALSE]

----------------------------------------------------------------------------
(* the registry files and the inputs of the calls *)

ChainDetails(selector, name) == [ChainSelector |-> selector, ChainName |-> Str(name)]

EthereumMainnet == U64(0, 0, 1)
Unnamed == U64(0, 0, 2)
Sepolia == U64(0, 0, 11155111)
GethTestnet == U64(0, 0, 1337)

\* entries selectors.yml may hold: two of the real file, and one without a name
\* whose selector breaks the registry's promise to stay out of the custom range
SelectorsYml ==
    [k \in {EthereumMainnet, Unnamed, Sepolia} |->
        IF k = EthereumMainnet
        THEN ChainDetails(U64(4, 370304595, 1016888085), "ethereum-mainnet")
        ELSE IF k = Sepolia
        THEN ChainDetails(U64(13, 956754239, 165223129), "ethereum-testnet-sepolia")
        ELSE ChainDetails(U64(14, 0, 1), "")]

\* entries test_selectors.yml may hold
TestSelectorsYml ==
    [k \in {GethTestnet} |-> ChainDetails(U64(2, 999871060, 519510854), "geth-testnet")]

\* the selectors.yml parseYml may be given: any part of the entries above
\* (test_selectors.yml is read whole)
parseYml(entries) == {[k \in S |-> entries[k]] : S \in SUBSET DOMAIN entries}

loadAllEVMSelectors(prod, test) ==
    [k \in DOMAIN prod \cup DOMAIN test |->
        IF k \in DOMAIN test THEN test[k] ELSE prod[k]]

\* the generated list ALL: one Chain per entry of selectors.yml, named after the
\* entry (after the chain ID when the entry has no name)
ALL(prod) ==
    {[EvmChainID |-> k,
      Selector |-> prod[k].ChainSelector,
      Name |-> IF prod[k].ChainName = Str("") THEN SprintfD("", k) ELSE prod[k].ChainName,
      VarName |-> IF prod[k].ChainName = Str("") THEN SprintfD("", k) ELSE prod[k].ChainName]
     : k \in DOMAIN prod}

SmallIDs == {U64(0, 0, n) : n \in 0..MaxSmallID}

ChainIDs ==
    SmallIDs \cup {GethTestnet, Sepolia, U64(0, 0, 9388201),
                   PayloadMask, U64(1, 0, 0), MaxUint64}

Oversized == {c \in ChainIDs : Gt64(c, PayloadMask)}

\* values the first 8 bytes of a hash may have
HashValues == {MaxUint64, U64(5, 370304595, 1)}

Payloads == SmallIDs \cup {PayloadMask}

Selectors ==
    {Or64(U64(t, 0, 0), p) : t \in {4, 14, 15}, p \in Payloads}
    \cup {SelectorsYml[k].ChainSelector : k \in DOMAIN SelectorsYml}
    \cup {TestSelectorsYml[k].ChainSelector : k \in DOMAIN TestSelectorsYml}

EnvValues == {"", "true", "false"}

----------------------------------------------------------------------------
(* the state machine *)

Init ==
    /\ \E evmSelectorsMap \in parseYml(SelectorsYml),
          evmTestSelectorsMap \in {TestSelectorsYml} :
         /\ evmChainIdToChainSelector =
              loadAllEVMSelectors(evmSelectorsMap, evmTestSelectorsMap)
         /\ evmChainsBySelector =
              [s \in {ch.Selector : ch \in ALL(evmSelectorsMap)} |->
                 CHOOSE ch \in ALL(evmSelectorsMap) : ch.Selector = s]
         /\ evmChainsByEvmChainID =
              [c \in {ch.EvmChainID : ch \in ALL(evmSelectorsMap)} |->
                 CHOOSE ch \in ALL(evmSelectorsMap) : ch.EvmChainID = c]
    /\ env = ""
    /\ sha256Prefix \in [Oversized -> HashValues]
    /\ last = [op |-> "init"]
    /\ listing = [pc |-> "idle"]

\* os.Setenv("ENABLE_CUSTOM_CHAINS", v), by the process or its environment;
\* a call that records flag ran with ENABLE_CUSTOM_CHAINS = flag
Setenv(v) ==
    /\ env' = v
    /\ UNCHANGED <<registry, sha256Prefix, last, listing>>

Call(rec) ==
    /\ last' = rec
    /\ UNCHANGED <<registry, sha256Prefix, env, listing>>

CallGenerate(c) ==
    Call([op |-> "generateCustomChainSelector", arg |-> c, flag |-> env,
          ret |-> generateCustomChainSelector(c)])

CallExtract(s) ==
    LET r == extractChainIdFromCustomSelector(s)
    IN Call([op |-> "extractChainIdFromCustomSelector", arg |-> s,
             ret |-> r.ret, err |-> r.err])

CallIsCustomSelector(s) ==
    Call([op |-> "isCustomSelector", arg |-> s, ret |-> isCustomSelector(s)])

CallIsCustomChain(c) ==
    Call([op |-> "isCustomChain", arg |-> c, ret |-> isCustomChain(c)])

\* selector1 := generateCustomChainSelector(chainID);
\* extractedChainID, err := extractChainIdFromCustomSelector(selector1)
TestCustomChainSelectorGeneration(chainID) ==
    LET selector1 == generateCustomChainSelector(chainID)
        r == extractChainIdFromCustomSelector(selector1)
    IN Call([op |-> "TestCustomChainSelectorGeneration", arg |-> chainID,
             selector |-> selector1, custom |-> isCustomSelector(selector1),
             ret |-> r.ret, err |-> r.err])

CallSelectorFromChainId(c) ==
    LET r == SelectorFromChainId(c)
    IN Call([op |-> "SelectorFromChainId", arg |-> c, flag |-> env,
             ret |-> r.ret, err |-> r.err, codec |-> r.codec])

CallGetCustomChainSelector(c) ==
    LET r == GetCustomChainSelector(c)
    IN Call([op |-> "GetCustomChainSelector", arg |-> c, flag |-> env,
             ret |-> r.ret, err |-> r.err, codec |-> r.codec])

CallChainIdFromSelector(s) ==
    \E r \in ChainIdFromSelector(s) :
        Call([op |-> "ChainIdFromSelector", arg |-> s, ret |-> r.ret, err |-> r.err])

CallNameFromChainId(c) ==
    LET r == NameFromChainId(c)
    IN Call([op |-> "NameFromChainId", arg |-> c, flag |-> env,
             ret |-> r.ret, err |-> r.err])

CallChainBySelector(s) ==
    LET r == ChainBySelector(s)
    IN Call([op |-> "ChainBySelector", arg |-> s, ret |-> r.ret, ok |-> r.ok])

CallChainByEvmChainID(c) ==
    LET r == ChainByEvmChainID(c)
    IN Call([op |-> "ChainByEvmChainID", arg |-> c, flag |-> env,
             ret |-> r.ret, ok |-> r.ok])

\* ChainIdFromSelector(SelectorFromChainId(c)), when the first call succeeds
SelectorRoundTrip(c) ==
    LET f == SelectorFromChainId(c)
    IN /\ f.err = Nil
       /\ \E r \in ChainIdFromSelector(f.ret) :
            Call([op |-> "SelectorRoundTrip", arg |-> c, flag |-> env,
                  selector |-> f.ret,
                  ret |-> r.ret, err |-> r.err])

\* ChainBySelector(ChainByEvmChainID(c).Selector), when the first call succeeds
ChainRoundTrip(c) ==
    LET f == ChainByEvmChainID(c)
        r == ChainBySelector(f.ret.Selector)
    IN /\ f.ok
       /\ Call([op |-> "ChainRoundTrip", arg |-> c, flag |-> env, chain |-> f.ret,
                ret |-> r.ret, ok |-> r.ok])

Next ==
    \/ \E v \in EnvValues : Setenv(v)
    \/ \E c \in ChainIDs : CallGenerate(c)
    \/ \E s \in Selectors : CallExtract(s)
    \/ \E s \in Selectors : CallIsCustomSelector(s)
    \/ \E c \in ChainIDs : CallIsCustomChain(c)
    \/ \E c \in ChainIDs : TestCustomChainSelectorGeneration(c)
    \/ \E c \in ChainIDs : CallSelectorFromChainId(c)
    \/ \E c \in ChainIDs : CallGetCustomChainSelector(c)
    \/ \E s \in Selectors : CallChainIdFromSelector(s)
    \/ \E c \in ChainIDs : CallNameFromChainId(c)
    \/ \E s \in Selectors : CallChainBySelector(s)
    \/ \E c \in ChainIDs : CallChainByEvmChainID(c)
    \/ \E c \in ChainIDs : SelectorRoundTrip(c)
    \/ \E c \in ChainIDs : ChainRoundTrip(c)

Spec == Init /\ [][Next]_vars

----------------------------------------------------------------------------
(* a reverse lookup followed by the forward lookup of its result *)

\* SelectorFromChainId(ChainIdFromSelector(s)), when the first call succeeds
SelectorReverseForward(s) ==
    \E r \in ChainIdFromSelector(s) :
        /\ r.err = Nil
        /\ LET f == SelectorFromChainId(r.ret)
           IN Call([op |-> "SelectorReverseForward", arg |-> s, flag |-> env,
                    chainID |-> r.ret, ret |-> f.ret, err |-> f.err])

\* ChainByEvmChainID(ChainBySelector(s).EvmChainID), when the first call succeeds
ChainReverseForward(s) ==
    LET r == ChainBySelector(s)
        f == ChainByEvmChainID(r.ret.EvmChainID)
    IN /\ r.ok
       /\ Call([op |-> "ChainReverseForward", arg |-> s, flag |-> env,
                chain |-> r.ret, ret |-> f.ret, ok |-> f.ok])

NextReverse ==
    \/ \E v \in EnvValues : Setenv(v)
    \/ \E s \in Selectors : SelectorReverseForward(s)
    \/ \E s \in Selectors : ChainReverseForward(s)

SpecReverse == Init /\ [][NextReverse]_vars

----------------------------------------------------------------------------
(* ListAllChains, one step per loop iteration; listing is the frame of the *)
(* call: its arguments, its locals and where it stands                     *)

\* largest small chain ID a range starts or ends at
MaxListID == 2

\* iterations of the second loop followed beyond one per small chain ID
MaxExcess == 2

ListIDs == {U64(0, 0, n) : n \in 0..MaxListID} \cup {MaxUint64}

\* the ranges listed: empty ones (start > end) and those short enough to be
\* walked through (start and end in the same block of 2^30 chain IDs)
ListRanges ==
    {r \in ListIDs \X ListIDs :
        \/ Gt64(r[1], r[2])
        \/ r[1].tag = r[2].tag /\ r[1].hi = r[2].hi}

ListStep(frame) ==
    /\ listing' = frame
    /\ UNCHANGED <<registry, sha256Prefix, env, last>>

\* var chains []ChainDetails, and the start of the range over the map
ListAllChains(startChainID, endChainID) ==
    /\ listing.pc = "idle"
    /\ ListStep([pc |-> "official",
                 startChainID |-> startChainID, endChainID |-> endChainID,
                 chains |-> << >>,
                 pending |-> DOMAIN evmChainIdToChainSelector,
                 enabled |-> FALSE, chainID |-> Zero, iterations |-> 0])

\* one iteration of the range over evmChainIdToChainSelector, which visits
\* the keys in an unspecified order
ListOfficial ==
    /\ listing.pc = "official"
    /\ \E k \in listing.pending :
         ListStep([listing EXCEPT
            !.pending = @ \ {k},
            !.chains = IF Ge64(k, listing.startChainID) /\ Le64(k, listing.endChainID)
                       THEN Append(@, evmChainIdToChainSelector[k])
                       ELSE @])

\* if os.Getenv("ENABLE_CUSTOM_CHAINS") != "false" { for chainID := startChainID
ListGetenv ==
    /\ listing.pc = "official"
    /\ listing.pending = {}
    /\ ListStep([listing EXCEPT
            !.pc = IF Enabled THEN "custom" ELSE "done",
            !.enabled = Enabled,
            !.chainID = listing.startChainID])

\* one iteration of the second loop: chainID <= endChainID, the body, chainID++
ListCustom ==
    /\ listing.pc = "custom"
    /\ Le64(listing.chainID, listing.endChainID)
    /\ listing.iterations < MaxListID + 1 + MaxExcess
    /\ ListStep([listing EXCEPT
            !.chains = IF isCustomChain(listing.chainID)
                          /\ ~isInOfficialSelectors(listing.chainID)
                       THEN Append(@, [ChainSelector |->
                                          generateCustomChainSelector(listing.chainID),
                                       ChainName |->
                                          generateCustomChainName(listing.chainID)])
                       ELSE @,
            !.chainID = Inc64(@),
            !.iterations = @ + 1])

\* the second loop ends: chainID > endChainID
ListExit ==
    /\ listing.pc = "custom"
    /\ Gt64(listing.chainID, listing.endChainID)
    /\ ListStep([listing EXCEPT !.pc = "done"])

\* return chains
ListReturn ==
    /\ listing.pc = "done"
    /\ ListStep([pc |-> "idle"])

NextList ==
    \/ \E v \in EnvValues : Setenv(v)
    \/ \E r \in ListRanges : ListAllChains(r[1], r[2])
    \/ ListOfficial
    \/ ListGetenv
    \/ ListCustom
    \/ ListExit
    \/ ListReturn

SpecList == Init /\ [][NextList]_vars

----------------------------------------------------------------------------
(* properties of the codec *)

Registered(c) == c \in DOMAIN evmChainIdToChainSelector

\* 0xEFFFFFFFFFFFFFFF: the custom tag over a payload of sixty ones
AllOnesCustomSelector == U64(14, LimbMax, LimbMax)

\* C1: for every chainID <= 2^60 - 1, extracting the chain ID from
\* generateCustomChainSelector(chainID) returns chainID and no error.
C1_RoundTripDirect ==
    (last.op = "TestCustomChainSelectorGeneration" /\ ~Gt64(last.arg, PayloadMask))
        => (last.ret = last.arg /\ last.err = Nil)

\* the largest directly encoded chain ID, 2^60 - 1, made the round trip
C1_Witness ==
    /\ last.op = "TestCustomChainSelectorGeneration"
    /\ last.arg = PayloadMask
    /\ last.selector = AllOnesCustomSelector
    /\ last.ret = PayloadMask
    /\ last.err = Nil

\* C2: for every chainID > 2^60 - 1, extracting the chain ID from
\* generateCustomChainSelector(chainID) fails with the could-not-reverse error
\* and returns no chain ID, whatever the hash is.
C2_HashFallbackRejected ==
    (last.op = "TestCustomChainSelectorGeneration" /\ Gt64(last.arg, PayloadMask))
        => (last.err = ErrCouldNotReverse /\ last.ret = Zero)

C4_NotCustomRejected ==
    /\ (last.op = "extractChainIdFromCustomSelector" /\ last.arg.tag # 14)
         => (last.err = ErrNotCustomSelector /\ last.ret = Zero)
    /\ last.op = "isCustomSelector" => (last.ret = (last.arg.tag = 14))

\* a selector with top nibble 0xF was refused as not custom
C4_Witness ==
    /\ last.op = "extractChainIdFromCustomSelector"
    /\ last.arg.tag = 15
    /\ last.err = ErrNotCustomSelector

\* C5: every selector generateCustomChainSelector returns has top nibble 0xE,
\* on the direct path and on the hash fallback, and for chainID <= 2^60 - 1
\* its low 60 bits are chainID.
C5_GeneratedIsCustom ==
    /\ last.op = "generateCustomChainSelector"
         => /\ last.ret.tag = 14
            /\ ~Gt64(last.arg, PayloadMask)
                 => last.ret = U64(14, last.arg.hi, last.arg.lo)
    /\ last.op = "TestCustomChainSelectorGeneration" => last.custom

\* a chain ID above 2^60 - 1 whose hash has tag bits set got the tag 0xE
C5_Witness ==
    /\ last.op = "generateCustomChainSelector"
    /\ Gt64(last.arg, PayloadMask)
    /\ Sha256Uint64(last.arg).tag # 0
    /\ last.ret.tag = 14

----------------------------------------------------------------------------
(* properties of the facade *)

\* C8: with ENABLE_CUSTOM_CHAINS set to false, SelectorFromChainId,
\* GetCustomChainSelector, NameFromChainId and ChainByEvmChainID of a chain ID
\* that is not in the official registry fail with the custom-chains-disabled
\* condition and return no custom selector, name or chain.
C8_DisabledRejectsUnregistered ==
    (last.op \in {"SelectorFromChainId", "GetCustomChainSelector",
                  "NameFromChainId", "ChainByEvmChainID"}
     /\ last.flag = "false" /\ ~Registered(last.arg))
        => /\ last.op \in {"SelectorFromChainId", "GetCustomChainSelector"}
                => (last.err = ErrCustomChainsDisabled /\ last.ret = Zero)
           /\ last.op = "NameFromChainId"
                => (last.err = ErrCustomChainsDisabled /\ last.ret = Str(""))
           /\ last.op = "ChainByEvmChainID"
                => (~last.ok /\ last.ret = NoChain)

\* C9: for a chain ID in the official registry SelectorFromChainId and
\* GetCustomChainSelector return the registry's selector and no error,
\* whatever ENABLE_CUSTOM_CHAINS is, and generateCustomChainSelector is called
\* only for chain IDs that are not in the registry.
C9_RegistryFirst ==
    last.op \in {"SelectorFromChainId", "GetCustomChainSelector"}
        => /\ Registered(last.arg)
                => /\ last.ret = evmChainIdToChainSelector[last.arg].ChainSelector
                   /\ last.err = Nil
                   /\ ~last.codec
           /\ last.codec => ~Registered(last.arg)

\* a registered chain ID was resolved to the registry's selector with
\* ENABLE_CUSTOM_CHAINS set to false
C9_Witness ==
    /\ last.op = "GetCustomChainSelector"
    /\ last.flag = "false"
    /\ Registered(last.arg)
    /\ last.ret = evmChainIdToChainSelector[last.arg].ChainSelector
    /\ last.err = Nil

NoCustomTagInRegistry ==
    \A k \in DOMAIN evmChainIdToChainSelector :
        evmChainIdToChainSelector[k].ChainSelector.tag # 14

\* C10: when no selector of the official registry has the custom tag, for
\* every chain ID c <= 2^60 - 1 outside the registry, with custom chains
\* enabled, ChainIdFromSelector(SelectorFromChainId(c)) returns c and no
\* error, and ChainBySelector of the Selector of ChainByEvmChainID(c) returns
\* the chain ChainByEvmChainID(c) returned (EvmChainID, Selector and Name).
C10_FacadeRoundTrip ==
    (last.op \in {"SelectorRoundTrip", "ChainRoundTrip"}
     /\ NoCustomTagInRegistry /\ ~Registered(last.arg)
     /\ ~Gt64(last.arg, PayloadMask) /\ last.flag # "false")
        => /\ last.op = "SelectorRoundTrip"
                => (last.ret = last.arg /\ last.err = Nil)
           /\ last.op = "ChainRoundTrip"
                => /\ last.ok
                   /\ last.chain.EvmChainID = last.arg
                   /\ last.ret.EvmChainID = last.chain.EvmChainID
                   /\ last.ret.Selector = last.chain.Selector
                   /\ last.ret.Name = last.chain.Name

\* the unregistered chain ID 9388201 made the round trip through the selectors
C10_Witness ==
    /\ NoCustomTagInRegistry
    /\ evmChainIdToChainSelector # << >>
    /\ last.op = "SelectorRoundTrip"
    /\ last.arg = U64(0, 0, 9388201)
    /\ last.selector = U64(14, 0, 9388201)
    /\ last.ret = last.arg

----------------------------------------------------------------------------
(* properties of the reverse lookups *)

\* C11: with custom chains enabled, when ChainIdFromSelector(s) or
\* ChainBySelector(s) resolves the selector s to a chain ID, the forward
\* lookup of that chain ID (SelectorFromChainId, ChainByEvmChainID) gives s
\* back; a custom-tagged selector whose payload is a registered chain ID is
\* not resolved to that chain ID.
C11_ReverseAgreesWithForward ==
    (last.op \in {"SelectorReverseForward", "ChainReverseForward"}
     /\ last.flag # "false")
        => /\ last.op = "SelectorReverseForward"
                => /\ last.err = Nil
                   /\ last.ret = last.arg
                   /\ LET payload == And64(last.arg, PayloadMask)
                      IN (/\ last.arg.tag = 14
                          /\ Registered(payload)
                          /\ evmChainIdToChainSelector[payload].ChainSelector # last.arg)
                            => last.chainID # payload
           /\ last.op = "ChainReverseForward"
                => /\ last.ok
                   /\ last.ret.Selector = last.arg

----------------------------------------------------------------------------
(* properties of ListAllChains *)

\* the number of chain IDs of a listed range
IDsInRange(startChainID, endChainID) ==
    IF Gt64(startChainID, endChainID) THEN 0
    ELSE endChainID.lo - startChainID.lo + 1

\* C12: ListAllChains(startChainID, endChainID) terminates, for endChainID =
\* 2^64 - 1 too: its second loop runs at most one iteration per chain ID of
\* [startChainID, endChainID]; and when startChainID <= endChainID and custom
\* chains are enabled it returns one entry per chain ID of the range.
C12_ListTerminates ==
    /\ listing.pc = "custom"
         => listing.iterations
              <= IDsInRange(listing.startChainID, listing.endChainID)
    /\ (listing.pc = "done" /\ listing.enabled
        /\ Le64(listing.startChainID, listing.endChainID))
         => Len(listing.chains)
              = IDsInRange(listing.startChainID, listing.endChainID)

====
